---- MODULE Spec2Model ----
(***************************************************************************)
(* Model of openvswitch/datapath/dpdk/ovdk_args.c: the application         *)
(* argument parser of the Intel DPDK vSwitch datapath.                     *)
(*                                                                         *)
(* A C string is a sequence of one-character strings (without the NUL).    *)
(* An unsigned long (64 bit, LP64) is a little-endian tuple of four 16-bit *)
(* limbs, a uint32_t a tuple of two, so that the conversions keep their    *)
(* width.  argv is the argument vector without argv[0]; optind counts from *)
(* 1 as in C, so argv[optind] is the same element in both.                 *)
(***************************************************************************)
EXTENDS Integers, Sequences, FiniteSets, TLC

(***************************************************************************)
(* Bounds of the explored inputs.                                          *)
(***************************************************************************)
MaxGroups == 2

(***************************************************************************)
(* Program constants.                                                      *)
(***************************************************************************)
LOG_LEVEL_BASE == 10
PORTMASK_BASE == 16
RTE_LOG_ERR == 4
RTE_LOG_DEBUG == 8
OVDK_DEFAULT_MAX_FRAME_SIZE == 1518
EOF == "EOF"

\* The value getopt_long returns for a long option of lgopts (val 0).
LongOpt == "0"

PARAM_STATS_INTERVAL == <<"s","t","a","t","s","_","i","n","t">>
PARAM_STATS_CORE == <<"s","t","a","t","s","_","c","o","r","e">>

\* static struct option lgopts[]: the two long options, both with a
\* required argument, flag NULL and val 0.
lgopts == <<PARAM_STATS_INTERVAL, PARAM_STATS_CORE>>

\* The short options of the optstring "p:v:J:", each with a required argument.
ShortOpts == {"p", "v", "J"}

(***************************************************************************)
(* Fixed-width unsigned arithmetic on limbs.                               *)
(***************************************************************************)
LimbBase == 256 * 256

ULongZero == <<0, 0, 0, 0>>
ULONG_MAX == <<65535, 65535, 65535, 65535>>

\* x * m + d on a 64-bit value, with the carry out of the top limb.
MulAdd(x, m, d) ==
    LET t1 == x[1] * m + d
        t2 == x[2] * m + (t1 \div LimbBase)
        t3 == x[3] * m + (t2 \div LimbBase)
        t4 == x[4] * m + (t3 \div LimbBase)
    IN  [val |-> <<t1 % LimbBase, t2 % LimbBase, t3 % LimbBase, t4 % LimbBase>>,
         carry |-> t4 \div LimbBase]

\* Unsigned negation modulo 2^64 (two's complement).
Negate(x) ==
    MulAdd(<<65535 - x[1], 65535 - x[2], 65535 - x[3], 65535 - x[4]>>, 1, 1).val

\* The conversion (uint32_t) of an unsigned long: the low 32 bits.
ToUint32(x) == <<x[1], x[2]>>

(***************************************************************************)
(* Character classes of the C locale.                                      *)
(***************************************************************************)
IsSpace(c) == c \in {" "}

DigitVal(c) ==
    CASE c = "0" -> 0 [] c = "1" -> 1 [] c = "2" -> 2 [] c = "3" -> 3
      [] c = "4" -> 4 [] c = "5" -> 5 [] c = "6" -> 6 [] c = "7" -> 7
      [] c = "8" -> 8 [] c = "9" -> 9
      [] c \in {"a", "A"} -> 10 [] c \in {"b", "B"} -> 11
      [] c \in {"c", "C"} -> 12 [] c \in {"d", "D"} -> 13
      [] c \in {"e", "E"} -> 14 [] c \in {"f", "F"} -> 15
      [] OTHER -> 99

IsDigitIn(c, base) == DigitVal(c) < base

\* The character at position i of s, "NUL" at and past the terminator.
CharAt(s, i) == IF i >= 1 /\ i <= Len(s) THEN s[i] ELSE "NUL"

(***************************************************************************)
(* strtoul(3) and atoi(3).                                                 *)
(***************************************************************************)
RECURSIVE SkipSpace(_, _)
SkipSpace(s, i) == IF IsSpace(CharAt(s, i)) THEN SkipSpace(s, i + 1) ELSE i

\* Accumulate the digits of s from position i: acc is the value so far,
\* ovf whether it left the unsigned long range.
RECURSIVE Digits(_, _, _, _, _)
Digits(s, i, base, acc, ovf) ==
    IF IsDigitIn(CharAt(s, i), base)
    THEN LET r == MulAdd(acc, base, DigitVal(CharAt(s, i)))
         IN  Digits(s, i + 1, base, r.val, ovf \/ r.carry > 0)
    ELSE [val |-> acc, ovf |-> ovf, end |-> i]

\* strtoul(str, &end, base) for base 10 or 16: optional white space, an
\* optional sign, for base 16 an optional 0x prefix, then digits.  val is
\* the result, end the position end points to (Len(s) + 1 is the
\* terminator).  Without any digit the result is 0 and end is the start of
\* the string; out of range the result is ULONG_MAX.
StrToUL(s, base) ==
    LET Conv(neg, i2, d) ==
            IF d.end = i2 THEN [val |-> ULongZero, end |-> 1]
            ELSE IF d.ovf THEN [val |-> ULONG_MAX, end |-> d.end]
            ELSE [val |-> IF neg THEN Negate(d.val) ELSE d.val, end |-> d.end]
        Number(neg, i2) == Conv(neg, i2, Digits(s, i2, base, ULongZero, FALSE))
        Prefix(neg, i1) ==
            Number(neg, IF /\ base = 16
                           /\ CharAt(s, i1) = "0"
                           /\ CharAt(s, i1 + 1) \in {"x", "X"}
                           /\ IsDigitIn(CharAt(s, i1 + 2), base)
                        THEN i1 + 2 ELSE i1)
        Sign(i0) ==
            Prefix(CharAt(s, i0) = "-",
                   IF CharAt(s, i0) \in {"+", "-"} THEN i0 + 1 ELSE i0)
    IN  Sign(SkipSpace(s, 1))

\* The conversion (int) of a 32-bit pattern (two's complement).
Int32Of(w) ==
    IF w[2] < 32768 THEN w[2] * LimbBase + w[1]
    ELSE (w[2] - LimbBase) * LimbBase + w[1]

\* atoi(str): white space, an optional sign, decimal digits; anything else
\* ends the conversion, and no digit at all gives 0.  The result is the
\* set of values a build can return: the value itself when it is an int;
\* outside the range of int the behaviour is undefined, and the builds in
\* use return the low 32 bits of the value or, outside the range of long,
\* the low 32 bits of LONG_MAX or LONG_MIN ((int) strtol).
Atoi(s) ==
    LET Values(neg, wrapped, longOvf) ==
            {wrapped} \cup (IF longOvf THEN {IF neg THEN 0 ELSE -1} ELSE {})
        Conv(neg, d) ==
            Values(neg,
                   Int32Of(ToUint32(IF neg THEN Negate(d.val) ELSE d.val)),
                   d.ovf \/ d.val[4] >= 32768)
        Sign(i0) ==
            Conv(CharAt(s, i0) = "-",
                 Digits(s, IF CharAt(s, i0) \in {"+", "-"} THEN i0 + 1 ELSE i0,
                        10, ULongZero, FALSE))
    IN  Sign(SkipSpace(s, 1))

\* strncmp(a, b, n) == 0.
RECURSIVE StrNEq(_, _, _, _)
StrNEq(a, b, n, i) ==
    IF i > n THEN TRUE
    ELSE IF CharAt(a, i) # CharAt(b, i) THEN FALSE
    ELSE IF CharAt(a, i) = "NUL" THEN TRUE
    ELSE StrNEq(a, b, n, i + 1)

StrNCmpEq(a, b, n) == StrNEq(a, b, n, 1)

(***************************************************************************)
(* getopt_long(3) with the optstring "p:v:J:" and lgopts.                  *)
(***************************************************************************)
\* An element that is scanned as an option: it begins with '-' and is not
\* exactly "-".
IsOptionElement(e) == Len(e) >= 2 /\ e[1] = "-"

IsTerminator(e) == e = <<"-", "-">>

\* The position of the next option element at or after i, skipping the
\* non-option elements (which getopt permutes to the end of argv);
\* Len(av) + 1 when the scan reaches the end of argv or the element "--".
RECURSIVE NextOption(_, _)
NextOption(av, i) ==
    IF i > Len(av) THEN Len(av) + 1
    ELSE IF IsTerminator(av[i]) THEN Len(av) + 1
    ELSE IF IsOptionElement(av[i]) THEN i
    ELSE NextOption(av, i + 1)

\* The position of the first '=' of e at or after i, Len(e) + 1 without one.
RECURSIVE FindEq(_, _)
FindEq(e, i) ==
    IF i > Len(e) THEN i ELSE IF e[i] = "=" THEN i ELSE FindEq(e, i + 1)

IsPrefix(n, name) == Len(n) <= Len(name) /\ SubSeq(name, 1, Len(n)) = n

\* The indexes (from 0, as option_index) of the long options the name n
\* selects: the exact match, else every option n abbreviates.
LongMatches(n) ==
    LET exact == {k \in 1..Len(lgopts) : lgopts[k] = n}
        abbrev == {k \in 1..Len(lgopts) : IsPrefix(n, lgopts[k])}
    IN  {k - 1 : k \in (IF exact # {} THEN exact ELSE abbrev)}

NoArg == <<"(null)">>

\* One call of getopt_long with optind = i: the value returned (opt), and
\* optarg, option_index and optind after the call.  "?" is returned for an
\* unrecognised or ambiguous option and for a missing argument.
GetoptLong(av, i) ==
    LET j == NextOption(av, i)
    IN  IF j > Len(av)
        THEN [opt |-> EOF, optarg |-> NoArg, option_index |-> -1,
              optind |-> Len(av) + 1]
        ELSE LET e == av[j] IN
        IF e[2] = "-"
        THEN LET q == FindEq(e, 3)
                 m == LongMatches(SubSeq(e, 3, q - 1))
             IN  IF Cardinality(m) # 1
                 THEN [opt |-> "?", optarg |-> NoArg, option_index |-> -1,
                       optind |-> j + 1]
                 ELSE IF q <= Len(e)
                 THEN [opt |-> LongOpt, optarg |-> SubSeq(e, q + 1, Len(e)),
                       option_index |-> CHOOSE k \in m : TRUE,
                       optind |-> j + 1]
                 ELSE IF j < Len(av)
                 THEN [opt |-> LongOpt, optarg |-> av[j + 1],
                       option_index |-> CHOOSE k \in m : TRUE,
                       optind |-> j + 2]
                 ELSE [opt |-> "?", optarg |-> NoArg, option_index |-> -1,
                       optind |-> j + 1]
        ELSE IF e[2] \notin ShortOpts
             THEN [opt |-> "?", optarg |-> NoArg, option_index |-> -1,
                   optind |-> j + 1]
             ELSE IF Len(e) > 2
             THEN [opt |-> e[2], optarg |-> SubSeq(e, 3, Len(e)),
                   option_index |-> -1, optind |-> j + 1]
             ELSE IF j < Len(av)
             THEN [opt |-> e[2], optarg |-> av[j + 1],
                   option_index |-> -1, optind |-> j + 2]
             ELSE [opt |-> "?", optarg |-> NoArg, option_index |-> -1,
                   optind |-> j + 1]

(***************************************************************************)
(* The argument parsers.                                                   *)
(***************************************************************************)
\* parse_portmask assigning port_mask before it validates the string.
parse_portmask_StoreFirst(portmask) ==
    LET Check(r) ==
            IF CharAt(portmask, 1) = "NUL" \/ CharAt(portmask, r.end) # "NUL"
            THEN [ret |-> -1, store |-> TRUE, num |-> r.val]
            ELSE [ret |-> 0, store |-> TRUE, num |-> r.val]
    IN  Check(StrToUL(portmask, PORTMASK_BASE))

\* parse_portmask: ret is the value returned, store whether port_mask is
\* assigned, num the value assigned.
parse_portmask(portmask) ==
    LET Check(r) ==
            IF CharAt(portmask, 1) = "NUL" \/ CharAt(portmask, r.end) # "NUL"
            THEN [ret |-> -1, store |-> FALSE, num |-> r.val]
            ELSE [ret |-> 0, store |-> TRUE, num |-> r.val]
    IN  Check(StrToUL(portmask, PORTMASK_BASE))

\* parse_str_to_uint32t assigning *num before it validates temp.
parse_str_to_uint32t_StoreFirst(str) ==
    LET Check(r) ==
            IF CharAt(str, r.end) # "NUL" \/ r.val = ULongZero
            THEN [ret |-> -1, store |-> TRUE, num |-> ToUint32(r.val)]
            ELSE [ret |-> 0, store |-> TRUE, num |-> ToUint32(r.val)]
    IN  IF CharAt(str, 1) = "NUL"
        THEN [ret |-> -1, store |-> FALSE, num |-> ToUint32(ULongZero)]
        ELSE Check(StrToUL(str, 10))

\* parse_str_to_uint32t: ret is the value returned, store whether *num is
\* assigned, num the value assigned, (uint32_t) temp.
parse_str_to_uint32t(str) ==
    LET Check(r) ==
            IF CharAt(str, r.end) # "NUL" \/ r.val = ULongZero
            THEN [ret |-> -1, store |-> FALSE, num |-> ToUint32(r.val)]
            ELSE [ret |-> 0, store |-> TRUE, num |-> ToUint32(r.val)]
    IN  IF CharAt(str, 1) = "NUL"
        THEN [ret |-> -1, store |-> FALSE, num |-> ToUint32(ULongZero)]
        ELSE Check(StrToUL(str, 10))

\* level > RTE_LOG_DEBUG on an unsigned long.
ULongGreater(x, n) == x[4] > 0 \/ x[3] > 0 \/ x[2] > 0 \/ x[1] > n

\* parse_log_level without the comparison with RTE_LOG_DEBUG.
parse_log_level_NoUpperBound(level_arg) ==
    LET Check(r) ==
            IF CharAt(level_arg, r.end) # "NUL" \/ r.val = ULongZero
            THEN [ret |-> -1, store |-> FALSE, num |-> ToUint32(r.val)]
            ELSE [ret |-> 0, store |-> TRUE, num |-> ToUint32(r.val)]
    IN  IF CharAt(level_arg, 1) = "NUL"
        THEN [ret |-> -1, store |-> FALSE, num |-> ToUint32(ULongZero)]
        ELSE Check(StrToUL(level_arg, LOG_LEVEL_BASE))

\* parse_log_level: ret is the value returned, store whether log_level is
\* assigned, num the value assigned, level converted to unsigned.
parse_log_level(level_arg) ==
    LET Check(r) ==
            IF \/ CharAt(level_arg, r.end) # "NUL"
               \/ r.val = ULongZero
               \/ ULongGreater(r.val, RTE_LOG_DEBUG)
            THEN [ret |-> -1, store |-> FALSE, num |-> ToUint32(r.val)]
            ELSE [ret |-> 0, store |-> TRUE, num |-> ToUint32(r.val)]
    IN  IF CharAt(level_arg, 1) = "NUL"
        THEN [ret |-> -1, store |-> FALSE, num |-> ToUint32(ULongZero)]
        ELSE Check(StrToUL(level_arg, LOG_LEVEL_BASE))

(***************************************************************************)
(* The state of the program.                                               *)
(***************************************************************************)
VARIABLES
    argv,            \* argv[1..argc-1] as passed by the caller
    optind,          \* getopt's index of the next element to scan
    opt,             \* the value of the last getopt_long call
    optarg,          \* the argument of the last option returned
    port_mask,       \* static uint64_t port_mask
    stats_interval,  \* static int stats_interval
    stats_core,      \* static int stats_core
    log_level,       \* static unsigned log_level
    max_frame_size,  \* static uint32_t max_frame_size
    result,          \* how ovdk_args_parse_app_args has ended, if it has
    out,             \* the calls of ovdk_args_usage and rte_exit, in order
    stores,          \* the number of assignments made to each static
    hist             \* the options getopt_long has returned, in order

vars == <<argv, optind, opt, optarg, port_mask, stats_interval, stats_core,
          log_level, max_frame_size, result, out, stores, hist>>

config == <<port_mask, stats_interval, stats_core, log_level, max_frame_size>>

Fields == {"port_mask", "stats_interval", "stats_core", "log_level",
           "max_frame_size"}

Uint32(n) == <<n % LimbBase, n \div LimbBase>>

(***************************************************************************)
(* The argument vectors explored.                                          *)
(***************************************************************************)
DashP == <<"-", "p">>
DashV == <<"-", "v">>
DashJ == <<"-", "J">>
StatsInt == <<"-", "-", "s", "t", "a", "t", "s", "_", "i", "n", "t">>
StatsCore == <<"-", "-", "s", "t", "a", "t", "s", "_", "c", "o", "r", "e">>

\* Arguments given to -p: hex strings up to and past 64 bits, empty, signed,
\* prefixed and malformed ones.
PortmaskArgs ==
    {<<"f">>,
     <<>>,
     <<"f", "g">>,
     <<"0", "x", "1", "f">>,
     <<"-", "1">>,
     <<"1", "0", "0", "0", "0", "0", "0", "0", "0", "0", "0", "0", "0", "0", "0", "0", "0">>}

\* Arguments given to -v.
LogLevelArgs ==
    {<<"3">>,
     <<"8">>,
     <<"0">>,
     <<"9">>,
     <<>>,
     <<"3", "x">>,
     <<"-", "3">>}

\* Arguments given to -J: decimal strings up to and past 32 bits, zero,
\* empty and malformed ones.
FrameSizeArgs ==
    {<<"9", "0", "0", "0">>,
     <<"0">>,
     <<>>,
     <<"5", "x">>,
     <<"4", "2", "9", "4", "9", "6", "7", "2", "9", "6">>,
     <<"-", "5">>}

\* Arguments given to --stats_int and --stats_core.
StatsArgs ==
    {<<"1", "0">>,
     <<>>,
     <<"7", "x">>,
     <<"9", "9", "9", "9", "9", "9", "9", "9", "9", "9", "9", "9", "9", "9", "9", "9", "9", "9", "9", "9">>}

\* The pieces an argument vector is made of: an option with its argument
\* as the next element or attached, an option without argument, an
\* abbreviated, an ambiguous and an unknown option, the terminator "--"
\* and a non-option word.
Groups ==
    {<<DashP, a>> : a \in PortmaskArgs}
    \cup {<<DashV, a>> : a \in LogLevelArgs}
    \cup {<<DashJ, a>> : a \in FrameSizeArgs}
    \cup {<<StatsInt, a>> : a \in StatsArgs}
    \cup {<<StatsCore, <<"2">>>>,
          <<DashP>>, <<StatsInt>>,
          <<DashP \o <<"f">>>>,
          <<StatsInt \o <<"=", "5">>>>,
          <<<<"-", "-", "s", "t", "a", "t", "s", "_", "c">>, <<"7", "x">>>>,
          <<<<"-", "-", "s", "t", "a", "t", "s">>>>,
          <<<<"-", "z">>>>,
          <<<<"-", "-">>>>,
          <<<<"e", "t", "h">>>>}

RECURSIVE Concat(_, _)
Concat(gs, i) == IF i > Len(gs) THEN <<>> ELSE gs[i] \o Concat(gs, i + 1)

\* The vectors made of n pieces.
ArgvsOf(n) == {Concat(gs, 1) : gs \in [1..n -> Groups]}

\* Longer vectors: the end-to-end example and a failing -J between a valid
\* and an invalid option.
Scenarios ==
    {<<DashP, <<"f">>, DashV, <<"3">>, StatsInt, <<"1", "0">>>>,
     <<DashP, <<"f">>, DashJ, <<"0">>, <<"-", "z">>>>,
     <<DashV, <<"3">>, DashJ, <<"5", "x">>, DashP, <<"g">>>>,
     <<StatsCore, <<"2">>, DashJ, <<>>, DashV, <<"9">>>>,
     <<DashP, <<"1">>, DashP, <<"2">>, DashP, <<"3">>>>}

Argvs == UNION {ArgvsOf(n) : n \in 0..MaxGroups} \cup Scenarios

(***************************************************************************)
(* The body of the switch of ovdk_args_parse_app_args, case by case: the   *)
(* assignment made (store, num), the calls of ovdk_args_usage and rte_exit *)
(* (events), and whether the function goes on, returns or exits (result).  *)
(***************************************************************************)
Usage == "ovdk_args_usage"
RteExit == "rte_exit(EXIT_FAILURE)"

CaseP(arg) ==
    LET Act(r) ==
            IF r.ret # 0
            THEN [store |-> r.store, num |-> r.num,
                  events |-> <<Usage, RteExit>>, result |-> "rte_exit"]
            ELSE [store |-> r.store, num |-> r.num,
                  events |-> <<>>, result |-> "running"]
    IN  Act(parse_portmask(arg))

CaseV(arg) ==
    LET Act(r) ==
            IF r.ret # 0
            THEN [store |-> r.store, num |-> r.num,
                  events |-> <<Usage, RteExit>>, result |-> "rte_exit"]
            ELSE [store |-> r.store, num |-> r.num,
                  events |-> <<>>, result |-> "running"]
    IN  Act(parse_log_level(arg))

\* case 'J' ending in rte_exit like the cases 'p' and 'v'.
CaseJ_Exit(arg) ==
    LET Act(r) ==
            IF r.ret # 0
            THEN [store |-> r.store, num |-> r.num,
                  events |-> <<Usage, RteExit>>, result |-> "rte_exit"]
            ELSE [store |-> r.store, num |-> r.num,
                  events |-> <<>>, result |-> "running"]
    IN  Act(parse_str_to_uint32t(arg))

\* case 'J' going on with the next option after the usage.
CaseJ_Break(arg) ==
    LET Act(r) ==
            IF r.ret # 0
            THEN [store |-> r.store, num |-> r.num,
                  events |-> <<Usage>>, result |-> "running"]
            ELSE [store |-> r.store, num |-> r.num,
                  events |-> <<>>, result |-> "running"]
    IN  Act(parse_str_to_uint32t(arg))

CaseJ(arg) ==
    LET Act(r) ==
            IF r.ret # 0
            THEN [store |-> r.store, num |-> r.num,
                  events |-> <<Usage>>, result |-> "return -1"]
            ELSE [store |-> r.store, num |-> r.num,
                  events |-> <<>>, result |-> "running"]
    IN  Act(parse_str_to_uint32t(arg))

\* case 0 comparing the first 6 characters only.
Case0_ShortCompare(option_index) ==
    IF StrNCmpEq(lgopts[option_index + 1], PARAM_STATS_INTERVAL, 6)
    THEN "stats_interval"
    ELSE IF StrNCmpEq(lgopts[option_index + 1], PARAM_STATS_CORE, 6)
    THEN "stats_core"
    ELSE "none"

\* case 0: the static assigned for the long option lgopts[option_index].
Case0(option_index) ==
    IF StrNCmpEq(lgopts[option_index + 1], PARAM_STATS_INTERVAL, 9)
    THEN "stats_interval"
    ELSE IF StrNCmpEq(lgopts[option_index + 1], PARAM_STATS_CORE, 10)
    THEN "stats_core"
    ELSE "none"

\* case '?' without the call of ovdk_args_usage.
CaseInvalid_NoUsage == [events |-> <<RteExit>>, result |-> "rte_exit"]

\* case '?' and default.
CaseInvalid == [events |-> <<Usage, RteExit>>, result |-> "rte_exit"]

\* The value returned when getopt_long returns EOF.
CaseEOF == [events |-> <<>>, result |-> "return 0"]

Stored(f, b) == IF b THEN [stores EXCEPT ![f] = @ + 1] ELSE stores

(***************************************************************************)
(* Initial state: the statics as initialised, before the first call of     *)
(* getopt_long.                                                            *)
(***************************************************************************)
Init ==
    /\ argv \in Argvs
    /\ optind = 1
    /\ opt = "none"
    /\ optarg = NoArg
    /\ port_mask = ULongZero
    /\ stats_interval = 0
    /\ stats_core = -1
    /\ log_level = Uint32(RTE_LOG_ERR)
    /\ max_frame_size = Uint32(OVDK_DEFAULT_MAX_FRAME_SIZE)
    /\ result = "running"
    /\ out = <<>>
    /\ stores = [f \in Fields |-> 0]
    /\ hist = <<>>

\* The part of every iteration that is getopt_long's.
Getopt(g) ==
    /\ result = "running"
    /\ g = GetoptLong(argv, optind)
    /\ optind' = g.optind
    /\ opt' = g.opt
    /\ optarg' = g.optarg
    /\ hist' = Append(hist, [opt |-> g.opt, optarg |-> g.optarg,
                             option_index |-> g.option_index])
    /\ UNCHANGED argv

\* One iteration of the loop with getopt_long returning 'p'.
ParseP ==
    \E g \in {GetoptLong(argv, optind)} :
        /\ g.opt = "p"
        /\ Getopt(g)
        /\ \E c \in {CaseP(g.optarg)} :
               /\ port_mask' = IF c.store THEN c.num ELSE port_mask
               /\ stores' = Stored("port_mask", c.store)
               /\ out' = out \o c.events
               /\ result' = c.result
        /\ UNCHANGED <<stats_interval, stats_core, log_level, max_frame_size>>

\* One iteration with getopt_long returning 'v'.
ParseV ==
    \E g \in {GetoptLong(argv, optind)} :
        /\ g.opt = "v"
        /\ Getopt(g)
        /\ \E c \in {CaseV(g.optarg)} :
               /\ log_level' = IF c.store THEN c.num ELSE log_level
               /\ stores' = Stored("log_level", c.store)
               /\ out' = out \o c.events
               /\ result' = c.result
        /\ UNCHANGED <<port_mask, stats_interval, stats_core, max_frame_size>>

\* One iteration with getopt_long returning 'J'.
ParseJ ==
    \E g \in {GetoptLong(argv, optind)} :
        /\ g.opt = "J"
        /\ Getopt(g)
        /\ \E c \in {CaseJ(g.optarg)} :
               /\ max_frame_size' = IF c.store THEN c.num ELSE max_frame_size
               /\ stores' = Stored("max_frame_size", c.store)
               /\ out' = out \o c.events
               /\ result' = c.result
        /\ UNCHANGED <<port_mask, stats_interval, stats_core, log_level>>

\* One iteration with getopt_long returning 0, a long option.
ParseLong ==
    \E g \in {GetoptLong(argv, optind)} :
        /\ g.opt = LongOpt
        /\ Getopt(g)
        /\ \E f \in {Case0(g.option_index)} :
               \E n \in Atoi(g.optarg) :
                   /\ stats_interval' =
                          IF f = "stats_interval" THEN n ELSE stats_interval
                   /\ stats_core' = IF f = "stats_core" THEN n ELSE stats_core
                   /\ stores' = Stored(f, f \in Fields)
        /\ UNCHANGED <<port_mask, log_level, max_frame_size, result, out>>

\* One iteration with getopt_long returning '?'.
ParseInvalid ==
    \E g \in {GetoptLong(argv, optind)} :
        /\ g.opt = "?"
        /\ Getopt(g)
        /\ out' = out \o CaseInvalid.events
        /\ result' = CaseInvalid.result
        /\ UNCHANGED <<config, stores>>

\* getopt_long returns EOF: the loop ends and the function returns 0.
ParseDone ==
    \E g \in {GetoptLong(argv, optind)} :
        /\ g.opt = EOF
        /\ Getopt(g)
        /\ out' = out \o CaseEOF.events
        /\ result' = CaseEOF.result
        /\ UNCHANGED <<config, stores>>

Next ==
    \/ ParseP
    \/ ParseV
    \/ ParseJ
    \/ ParseLong
    \/ ParseInvalid
    \/ ParseDone

Spec == Init /\ [][Next]_vars


(***************************************************************************)
(* Vocabulary of the properties: the syntax of the arguments, read off the *)
(* characters and not through the conversions above.                       *)
(***************************************************************************)
DecChars == {"0", "1", "2", "3", "4", "5", "6", "7", "8", "9"}
HexLower == <<"0", "1", "2", "3", "4", "5", "6", "7", "8", "9",
              "a", "b", "c", "d", "e", "f">>
HexUpper == <<"0", "1", "2", "3", "4", "5", "6", "7", "8", "9",
              "A", "B", "C", "D", "E", "F">>
HexChars == {HexLower[k] : k \in 1..16} \cup {HexUpper[k] : k \in 1..16}

\* The value of one hexadecimal digit.
HexIndex(c) == (CHOOSE k \in 1..16 : HexLower[k] = c \/ HexUpper[k] = c) - 1

\* A non-empty string of digits only.
IsDigitString(s, chars) == s # <<>> /\ \A k \in 1..Len(s) : s[k] \in chars

RECURSIVE StripZeros(_)
StripZeros(s) ==
    IF s # <<>> /\ s[1] = "0" THEN StripZeros(Tail(s)) ELSE s

\* The 16 hexadecimal digit values of a 64-bit value, most significant first.
Nibbles(x) ==
    [k \in 1..16 |->
        LET limb == x[4 - ((k - 1) \div 4)]
        IN  CASE (k - 1) % 4 = 0 -> limb \div 4096
              [] (k - 1) % 4 = 1 -> (limb \div 256) % 16
              [] (k - 1) % 4 = 2 -> (limb \div 16) % 16
              [] OTHER -> limb % 16]

\* x is the number the hexadecimal digit string s denotes.
IsHexValueOf(x, s) ==
    \E d \in {StripZeros(s)} :
        /\ Len(d) <= 16
        /\ \A k \in 1..16 :
               Nibbles(x)[k] = IF k <= 16 - Len(d) THEN 0
                               ELSE HexIndex(d[k - (16 - Len(d))])

\* The decimal digits of a 32-bit value, without leading zeros.
RECURSIVE DecimalOf(_)
DecimalOf(w) ==
    IF w = <<0, 0>> THEN <<>>
    ELSE \* long division of w[2] * 2^16 + w[1] by 10
         LET q2 == w[2] \div 10
             rest == (w[2] % 10) * LimbBase + w[1]
         IN  Append(DecimalOf(<<(rest \div 10) % LimbBase,
                                q2 + ((rest \div 10) \div LimbBase)>>),
                    HexLower[(rest % 10) + 1])

\* The position at which the digits of a number in C syntax begin: white
\* space, an optional sign, then digits of the base to the end (for base 16
\* after an optional 0x); 0 when s is not of that form.
DigitsStart(s, chars) ==
    LET starts == {i \in 1..Len(s) :
                      /\ \A k \in i..Len(s) : s[k] \in chars
                      /\ \A k \in 1..(i - 2) : s[k] = " "
                      /\ i >= 2 => s[i - 1] \in {" ", "+", "-"}}
    IN  IF starts = {} THEN 0 ELSE CHOOSE i \in starts : TRUE

IsCNumber(s, chars) == DigitsStart(s, chars) # 0

IsNegative(s, chars) ==
    DigitsStart(s, chars) >= 2 /\ s[DigitsStart(s, chars) - 1] = "-"

\* The digits of a number in C syntax, without leading zeros.
Significant(s, chars) == StripZeros(SubSeq(s, DigitsStart(s, chars), Len(s)))

\* The arguments the claims call invalid.
InvalidPortmask(s) == s = <<>> \/ s[Len(s)] \notin HexChars

\* The characters of s before position i are white space and then at most
\* one sign.
IsNumberPrefix(s, i) ==
    /\ \A k \in 1..(i - 2) : s[k] = " "
    /\ i >= 2 => s[i - 1] \in {" ", "+", "-"}

\* s is no hexadecimal number in C syntax (white space, an optional sign,
\* an optional 0x, hexadecimal digits to the end).
NotHexNumber(s) ==
    /\ ~IsCNumber(s, HexChars)
    /\ ~\E i \in 1..(Len(s) - 2) :
            /\ s[i] = "0"
            /\ s[i + 1] \in {"x", "X"}
            /\ IsNumberPrefix(s, i)
            /\ \A k \in (i + 2)..Len(s) : s[k] \in HexChars

InvalidLogLevel(s) ==
    \/ s = <<>>
    \/ ~IsCNumber(s, DecChars)
    \/ IsNegative(s, DecChars)
    \/ Significant(s, DecChars) \notin {<<HexLower[n + 1]>> : n \in 1..RTE_LOG_DEBUG}

InvalidFrameSize(s) ==
    \/ s = <<>>
    \/ ~IsCNumber(s, DecChars)
    \/ Significant(s, DecChars) = <<>>

EndsWith(s, e) == Len(s) >= Len(e) /\ SubSeq(s, Len(s) - Len(e) + 1, Len(s)) = e

(***************************************************************************)
(* The properties.                                                         *)
(***************************************************************************)
LogLevels == {<<HexLower[n + 1]>> : n \in 1..RTE_LOG_DEBUG}

\* C1: an iteration for -p with a string of hexadecimal digits sets
\* port_mask to the number the string denotes and goes on; with an empty
\* argument or one ending in a non-hexadecimal character it leaves port_mask
\* alone, calls ovdk_args_usage and ends in rte_exit(EXIT_FAILURE).
C1_PortmaskIsHexValue ==
    [][opt' = "p" =>
        /\ IsDigitString(optarg', HexChars) =>
               /\ result' = "running"
               /\ IsHexValueOf(port_mask', optarg')
        /\ InvalidPortmask(optarg') =>
               /\ port_mask' = port_mask
               /\ stores' = stores
               /\ result' = "rte_exit"
               /\ out' = out \o <<Usage, RteExit>>]_vars

\* C2: log_level is in 1..RTE_LOG_DEBUG in every state; an iteration for -v
\* with a decimal string denoting n in 1..8 sets log_level to n and goes
\* on; with 0, more than 8, an empty or a non-numeric argument it leaves
\* log_level alone and ends in rte_exit(EXIT_FAILURE) after the usage.
C2_LogLevelInRange ==
    /\ DecimalOf(log_level) \in LogLevels
    /\ [][/\ DecimalOf(log_level') \in LogLevels
          /\ opt' = "v" =>
               /\ (/\ IsDigitString(optarg', DecChars)
                   /\ StripZeros(optarg') \in LogLevels) =>
                      /\ DecimalOf(log_level') = StripZeros(optarg')
                      /\ result' = "running"
               /\ InvalidLogLevel(optarg') =>
                      /\ log_level' = log_level
                      /\ stores' = stores
                      /\ result' = "rte_exit"
                      /\ out' = out \o <<Usage, RteExit>>]_vars

\* A -v with a valid level has replaced the default, and another -v has
\* been refused.
C2_Witness ==
    /\ opt = "v"
    /\ result = "rte_exit"
    /\ optarg = <<"9">>
    /\ log_level = Uint32(3)

\* C3: an iteration for -J whose argument is empty, not a number, not a
\* number to its end, or zero, calls ovdk_args_usage and returns -1 without
\* rte_exit, and max_frame_size keeps its value.
C3_BadFrameSizeReturns ==
    [][(opt' = "J" /\ InvalidFrameSize(optarg')) =>
          /\ result' = "return -1"
          /\ out' = out \o <<Usage>>
          /\ max_frame_size' = max_frame_size
          /\ stores' = stores]_vars

\* A -J with a valid size has replaced the default, and a -J with 0 has
\* been refused.
C3_Witness ==
    /\ opt = "J"
    /\ optarg = <<"0">>
    /\ result = "return -1"
    /\ max_frame_size = Uint32(9000)

\* C4: max_frame_size is positive in every state, and after an iteration
\* for -J that accepts a decimal string, max_frame_size is the number the
\* string denotes.
C4_FrameSizeIsValue ==
    /\ max_frame_size # Uint32(0)
    /\ (opt = "J" /\ result = "running" /\ IsDigitString(optarg, DecChars)) =>
           DecimalOf(max_frame_size) = StripZeros(optarg)

\* C5: ovdk_args_parse_app_args returns 0 only if getopt_long has returned
\* the option -p.
C5_PortmaskRequired ==
    result = "return 0" => \E k \in 1..Len(hist) : hist[k].opt = "p"

\* The static an option returned by getopt_long stands for.
FieldOf(h) ==
    CASE h.opt = "p" -> "port_mask"
      [] h.opt = "v" -> "log_level"
      [] h.opt = "J" -> "max_frame_size"
      [] h.opt = LongOpt /\ h.option_index = 0 -> "stats_interval"
      [] h.opt = LongOpt /\ h.option_index = 1 -> "stats_core"
      [] OTHER -> "none"

\* The element e of argv is an option getopt_long does not return: an
\* unknown short option, a long name that is no option or abbreviates both,
\* or, as the last element, an option without its argument.
UnknownOrIncomplete(e, isLast) ==
    /\ IsOptionElement(e)
    /\ IF e[2] = "-"
       THEN \E n \in {SubSeq(e, 3, FindEq(e, 3) - 1)} :
                \/ /\ n \notin {PARAM_STATS_INTERVAL, PARAM_STATS_CORE}
                   /\ \/ IsPrefix(n, PARAM_STATS_INTERVAL) = IsPrefix(n, PARAM_STATS_CORE)
                \/ isLast /\ FindEq(e, 3) > Len(e)
       ELSE e[2] \notin ShortOpts \/ (isLast /\ Len(e) = 2)

\* The option h returned by getopt_long is one the switch fails on.
Failing(h) ==
    \/ h.opt = "?"
    \/ h.opt = "p" /\ NotHexNumber(h.optarg)
    \/ h.opt = "v" /\ InvalidLogLevel(h.optarg)
    \/ h.opt = "J" /\ InvalidFrameSize(h.optarg)

Current(f) ==
    CASE f = "port_mask" -> port_mask
      [] f = "log_level" -> log_level
      [] f = "max_frame_size" -> max_frame_size
      [] f = "stats_interval" -> stats_interval
      [] f = "stats_core" -> stats_core

Default(f) ==
    CASE f = "port_mask" -> ULongZero
      [] f = "log_level" -> Uint32(RTE_LOG_ERR)
      [] f = "max_frame_size" -> Uint32(OVDK_DEFAULT_MAX_FRAME_SIZE)
      [] f = "stats_interval" -> 0
      [] f = "stats_core" -> -1

\* The values the conversion of argument a can give the static f.
Converted(f, a) ==
    CASE f = "port_mask" -> {StrToUL(a, 16).val}
      [] f = "log_level" -> {ToUint32(StrToUL(a, 10).val)}
      [] f = "max_frame_size" -> {ToUint32(StrToUL(a, 10).val)}
      [] OTHER -> Atoi(a)

\* The static f holds what the options h, applied in order, give it: its
\* default without an option for f, else the conversion of the argument of
\* the last one.
HoldsExpected(f, h) ==
    \E occ \in {{k \in 1..Len(h) : FieldOf(h[k]) = f}} :
        IF occ = {} THEN Current(f) = Default(f)
        ELSE \E last \in occ :
                 /\ \A k \in occ : k <= last
                 /\ Current(f) \in Converted(f, h[last].optarg)

\* C6: the function returns 0 exactly when getopt_long has returned EOF,
\* and then no option before has failed; it returns -1 only after a -J with
\* an invalid argument; it ends in rte_exit only after a -p or a -v with an
\* invalid argument, an unrecognised option or an option without its
\* argument; after --stats_int and --stats_core it always goes on.
C6_Outcomes ==
    /\ (result = "return 0") = (opt = EOF)
    /\ result = "return 0" =>
           \A k \in 1..Len(hist) : ~Failing(hist[k])
    /\ result = "return -1" => opt = "J" /\ InvalidFrameSize(optarg)
    /\ result = "rte_exit" =>
           \/ opt = "p" /\ NotHexNumber(optarg)
           \/ opt = "v" /\ InvalidLogLevel(optarg)
           \/ /\ opt = "?"
              /\ UnknownOrIncomplete(argv[optind - 1], optind - 1 = Len(argv))
    /\ opt = LongOpt => result = "running"

\* Every way of ending has been taken; here a long option with an argument
\* that is no number has been passed and the function has returned 0.
C6_Witness ==
    /\ result = "return 0"
    /\ \E k \in 1..Len(hist) :
           hist[k].opt = LongOpt /\ hist[k].optarg = <<"7", "x">>

\* C7 as claimed: no static is assigned more than once.
C7_WrittenAtMostOnce == \A f \in Fields : stores[f] <= 1

\* C7 as the code has it: an iteration assigns at most the one static of
\* the option getopt_long returned, at most once and only when the function
\* goes on (the argument was valid); nothing else changes a static, and a
\* later occurrence of the option assigns it again.
C7_WrittenOncePerOption ==
    [][\A f \in Fields :
          /\ stores'[f] \in {stores[f], stores[f] + 1}
          /\ stores'[f] = stores[f] => Current(f)' = Current(f)
          /\ stores'[f] = stores[f] + 1 =>
                 /\ FieldOf(hist'[Len(hist')]) = f
                 /\ result' = "running"
                 /\ Current(f)' \in Converted(f, optarg')]_vars

\* port_mask has been assigned twice and holds the value of the second -p.
C7_Witness ==
    /\ stores["port_mask"] = 2
    /\ result = "return 0"
    /\ port_mask = <<31, 0, 0, 0>>

\* C8: when the function has ended in rte_exit, ovdk_args_usage was called
\* just before it; when it has returned -1, ovdk_args_usage was called; as
\* long as it runs and when it has returned 0, ovdk_args_usage was not
\* called.
C8_UsageBeforeFailure ==
    /\ result = "rte_exit" => out = <<Usage, RteExit>>
    /\ result = "return -1" => out = <<Usage>>
    /\ result \in {"running", "return 0"} => out = <<>>

\* The usage has been printed for an option that is not recognised, after
\* an option that was applied.
C8_Witness ==
    /\ result = "rte_exit"
    /\ opt = "?"
    /\ Len(hist) = 2
    /\ out = <<Usage, RteExit>>

Example ==
    <<DashP, <<"f">>, DashV, <<"3">>, StatsInt, <<"1", "0">>>>

\* C9: when the function has returned 0, every static whose option
\* getopt_long has not returned holds its default, and every other one the
\* conversion of the argument of its option (of the last one, if there are
\* several); -p f -v 3 --stats_int 10 returns 0 with port_mask 15,
\* log_level 3, stats_interval 10, stats_core -1 and the default
\* max_frame_size.
C9_OnlyOwnField ==
    /\ result = "return 0" => \A f \in Fields : HoldsExpected(f, hist)
    /\ (argv = Example /\ result # "running") =>
           /\ result = "return 0"
           /\ port_mask = <<15, 0, 0, 0>>
           /\ log_level = Uint32(3)
           /\ stats_interval = 10
           /\ stats_core = -1
           /\ max_frame_size = Uint32(OVDK_DEFAULT_MAX_FRAME_SIZE)

\* The example has returned 0.
C9_Witness == argv = Example /\ result = "return 0"

\* C10: an option that fails is the last one getopt_long returns: the
\* function has then ended, by return -1 for -J and by rte_exit otherwise,
\* and takes no further step; when it has returned -1, the statics hold
\* what the options before the failing -J have given them.
C10_StopsAtFirstFailure ==
    /\ \A k \in 1..Len(hist) :
           Failing(hist[k]) =>
               /\ k = Len(hist)
               /\ result = IF hist[k].opt = "J" THEN "return -1" ELSE "rte_exit"
    /\ result # "running" => ~ENABLED Next
    /\ result = "return -1" =>
           \A f \in Fields : HoldsExpected(f, SubSeq(hist, 1, Len(hist) - 1))

\* -J 5x has returned -1 after -v 3 was applied, and the invalid -p behind
\* it was not looked at.
C10_Witness ==
    /\ result = "return -1"
    /\ log_level = Uint32(3)
    /\ optind <= Len(argv)
    /\ argv[optind] = DashP
    /\ NotHexNumber(argv[optind + 1])

====
